---- MODULE Spec2Model ----
(***************************************************************************)
(* Model of miasm2/os_dep/win_api_x86_32_seh.py: the simulated Windows x86 *)
(* process environment (TEB, PEB, loader lists) and the SEH dispatch and   *)
(* resume protocol.                                                        *)
(*                                                                         *)
(* A 32-bit value is a pair <<hi, lo>> of 16-bit halves, so that values    *)
(* above 2^31 (0xc0000005, 0xaaaaaaaa, 0xffffffff) keep their width.       *)
(* Memory is byte addressed: pages as add_memory_page maps them, bytes as  *)
(* set_mem writes them.                                                    *)
(***************************************************************************)
EXTENDS Integers, Sequences, FiniteSets, TLC

VARIABLES
    name2module,   \* module global name2module (line 80): [kind, items]
    main_pe,       \* module global main_pe (line 81): a pe object or None
    modules_info,  \* the LoadedModules instance built by create_modules_chain
    init_pc,       \* position inside init_seh
    vm,            \* jitter.vm: [pages, data, fill]
    cpu,           \* jitter.cpu: the register file
    pc,            \* jitter.pc
    seh_count,     \* module global seh_count
    eh_ret,        \* value returned by the last fake_seh_handler call
    status,        \* "running", or the exception that ended the run
    faults,        \* history: stack of pre-fault snapshots, innermost first
    last,          \* history: what the last completed operation was and saw
    frames,        \* history: the guest's installed SEH frames, innermost first
    walk           \* dump_seh's locals: [pc, cur_seh_ptr, loop, reads]

vars == <<name2module, main_pe, modules_info, init_pc, vm, cpu, pc,
          seh_count, eh_ret, status, faults, last, frames, walk>>

\* Python None where an image object is expected, and where a 32-bit value is
None == [id |-> 0]
NoValue == <<>>

-----------------------------------------------------------------------------
(* 32-bit values and their byte encoding                                   *)

Half == 256 * 256

W(hi, lo) == <<hi, lo>>

\* w + k modulo 2^32, k any integer
Add32(w, k) ==
    LET v == w[2] + k
    IN  <<(w[1] + (v \div Half)) % Half, v % Half>>

Lt32(a, b) == a[1] < b[1] \/ (a[1] = b[1] /\ a[2] < b[2])

Le32(a, b) == a = b \/ Lt32(a, b)

Zero32 == W(0, 0)

\* struct.pack("I", v): four bytes, little endian
pck32(w) == <<w[2] % 256, w[2] \div 256, w[1] % 256, w[1] \div 256>>

\* struct.unpack("I", s)[0]
upck32(b) == W(b[3] + 256 * b[4], b[1] + 256 * b[2])

\* struct.pack("H", n) as the UnicodeString length fields store it
pck16(n) == <<n % 256, (n \div 256) % 256>>

upck16(b) == b[1] + 256 * b[2]

\* "\x00" * n
Zeros(n) == [i \in 1..n |-> 0]

-----------------------------------------------------------------------------
(* The memory subsystem (jitter.vm) as this module uses it                 *)

EmptyFcn == [x \in {} |-> 0]

\* the bytes at ad .. ad+Len(bytes)-1 as a function from addresses
BytesAt(ad, bytes) ==
    [a \in {Add32(ad, i - 1) : i \in 1..Len(bytes)} |->
        bytes[((a[2] - ad[2]) % Half) + 1]]

InPage(a, p) == Le32(p.ad, a) /\ Lt32(a, Add32(p.ad, p.size))

\* a - b for a at or after b and less than 2^16 away
Dist32(a, b) == ((a[1] - b[1]) % Half) * Half + a[2] - b[2]

RECURSIVE is_mapped(_, _, _)
\* vm.is_mapped(ad, size): every byte lies in some page; page by page
is_mapped(m, ad, size) ==
    IF size <= 0 THEN TRUE
    ELSE \E p \in m.pages :
            /\ InPage(ad, p)
            /\ LET room == p.size - Dist32(ad, p.ad)
                   len == IF size < room THEN size ELSE room
               IN  is_mapped(m, Add32(ad, len), size - len)

\* vm.add_memory_page(ad, access, content, name)
add_memory_page(m, ad, content) ==
    [m EXCEPT !.pages = @ \cup {[ad |-> ad, size |-> Len(content)]},
              !.data = BytesAt(ad, content) @@ @]

\* vm.set_mem(ad, content); the callers test is_mapped where it can fail
set_mem(m, ad, content) ==
    [m EXCEPT !.data = BytesAt(ad, content) @@ @]

ReadByte(m, a) == IF a \in DOMAIN m.data THEN m.data[a] ELSE m.fill

\* vm.get_mem(ad, size)
get_mem(m, ad, size) == [i \in 1..size |-> ReadByte(m, Add32(ad, i - 1))]

get_u32(m, ad) == upck32(get_mem(m, ad, 4))

set_u32(m, ad, w) == set_mem(m, ad, pck32(w))

-----------------------------------------------------------------------------
(* Constants of the module (lines 34-84)                                   *)

EXCEPTION_BREAKPOINT == W(32768, 3)               \* 0x80000003
EXCEPTION_ACCESS_VIOLATION == W(49152, 5)         \* 0xc0000005
EXCEPTION_INT_DIVIDE_BY_ZERO == W(49152, 148)     \* 0xc0000094

FS_0_AD == W(32759, 0)            \* 0x7ff70000
PEB_AD == W(32765, 61440)         \* 0x7ffdf000
LDR_AD == W(52, 0)                \* 0x340000
DEFAULT_SEH == W(32767, 61440)    \* 0x7ffff000

tib_address == FS_0_AD
peb_address == PEB_AD
peb_ldr_data_offset == 7840       \* 0x1ea0
peb_ldr_data_address == Add32(LDR_AD, peb_ldr_data_offset)
modules_list_offset == 7936       \* 0x1f00

process_environment_address == W(1, 0)     \* 0x10000
process_parameters_address == W(32, 0)     \* 0x200000

return_from_exception == W(28333, 48879)   \* 0x6eadbeef

\* "c:\\xxx\\toto.exe"
main_pe_name == <<99, 58, 92, 120, 120, 120, 92, 116, 111, 116, 111, 46, 101, 120, 101>>

MAX_SEH == 5

\* "ntdll.dll" and "kernel32.dll", the names the fixups look up
ntdll_name == <<110, 116, 100, 108, 108, 46, 100, 108, 108>>
kernel32_name == <<107, 101, 114, 110, 101, 108, 51, 50, 46, 100, 108, 108>>

-----------------------------------------------------------------------------
(* Structure layouts of miasm2.os_dep.win_32_structs, as this file relies   *)
(* on them                                                                 *)

\* NT_TIB.get_offset("StackBase"), NT_TIB.get_offset("Self"), NT_TIB.sizeof()
NT_TIB_StackBase == 4
NT_TIB_Self == 24
NT_TIB_sizeof == 28
\* TEB.get_offset("ProcessEnvironmentBlock"), TEB.get_offset("LastErrorValue")
TEB_ProcessEnvironmentBlock == 48
TEB_LastErrorValue == 52

\* PEB.ImageBaseAddress, PEB.Ldr
PEB_ImageBaseAddress == 8
PEB_Ldr == 12

\* ListEntry: flink, blink
ListEntry_sizeof == 8
ListEntry_blink == 4

\* PEB_LDR_DATA, lines 141-146
LDR_InLoadOrderModuleList == 12
LDR_InMemoryOrderModuleList == 20
LDR_InInitializationOrderModuleList == 28

\* LdrDataEntry
LdrDataEntry_InMemoryOrderLinks == 8
LdrDataEntry_InInitializationOrderLinks == 16
LdrDataEntry_DllBase == 24
LdrDataEntry_EntryPoint == 28
LdrDataEntry_SizeOfImage == 32
LdrDataEntry_FullDllName == 36
LdrDataEntry_BaseDllName == 44
LdrDataEntry_Flags == 52
\* UnicodeString: length (u16), maxlength (u16), data (pointer)
UnicodeString_maxlength == 2
UnicodeString_data == 4

-----------------------------------------------------------------------------
(* Strings are sequences of character codes                                *)

SLASH == 47
BACKSLASH == 92

\* str.lower()
Lower(s) == [i \in 1..Len(s) |-> IF s[i] >= 65 /\ s[i] <= 90 THEN s[i] + 32 ELSE s[i]]

\* os.path.split(fname)[1]: what follows the last "/"
Basename(s) ==
    LET cuts == {i \in 1..Len(s) : s[i] = SLASH}
        k == IF cuts = {} THEN 0 ELSE CHOOSE i \in cuts : \A j \in cuts : j <= i
    IN  SubSeq(s, k + 1, Len(s))

\* fname.replace("/", "\\")
ReplaceSlash(s) == [i \in 1..Len(s) |-> IF s[i] = SLASH THEN BACKSLASH ELSE s[i]]

\* "\x00".join(s)
JoinNul(s) ==
    IF Len(s) = 0 THEN <<>>
    ELSE [i \in 1..(2 * Len(s) - 1) |-> IF i % 2 = 1 THEN s[(i + 1) \div 2] ELSE 0]

\* dict.get(key, None)
Get(f, k) == IF k \in DOMAIN f THEN f[k] ELSE None

-----------------------------------------------------------------------------
(* Module images and the name-to-module table                              *)

\* a parsed image: NThdr.ImageBase, Opthdr.AddressOfEntryPoint, NThdr.sizeofimage
PeObj(k) ==
    [id |-> k,
     ImageBase |-> W(64 * k, 0),
     AddressOfEntryPoint |-> W(0, 4096 + k),
     sizeofimage |-> W(k, 8192)]

\* file names of the table: "c:\\xxx\\toto.exe", "ntdll.dll", "d/KERNEL32.dll",
\* "a.dll", "d/a.dll" (same base name as "a.dll"), "z.dll" (no image object)
FnMain == main_pe_name
FnNtdll == ntdll_name
FnKernel32 == <<100, 47, 75, 69, 82, 78, 69, 76, 51, 50, 46, 100, 108, 108>>
FnA == <<97, 46, 100, 108, 108>>
FnDirA == <<100, 47, 97, 46, 100, 108, 108>>
FnZ == <<122, 46, 100, 108, 108>>

PeMain == PeObj(1)

\* the items a table can hold: each file name with its image object
ItemPool ==
    {<<FnMain, PeMain>>, <<FnNtdll, PeObj(2)>>, <<FnKernel32, PeObj(3)>>,
     <<FnA, PeObj(4)>>, <<FnDirA, PeObj(5)>>, <<FnZ, None>>}

\* most items a table holds
MaxModules == 4

RECURSIVE ItemSeqs(_)
\* the sequences of n distinct items: name2module.items() in any order
ItemSeqs(n) ==
    IF n = 0 THEN {<<>>}
    ELSE UNION {{Append(q, it) : it \in ItemPool \ {q[i] : i \in 1..Len(q)}} :
                q \in ItemSeqs(n - 1)}

\* name2module as the embedding script sets it (a dict), or as line 80 leaves it
Tables ==
    {[kind |-> "dict", items |-> q] : q \in UNION {ItemSeqs(n) : n \in 0..MaxModules}}
    \cup {[kind |-> "list", items |-> <<>>]}

-----------------------------------------------------------------------------
(* LoadedModules (lines 221-244)                                           *)

LoadedModules_init ==
    [modules |-> <<>>, name2module |-> EmptyFcn,
     module2entry |-> EmptyFcn, module2name |-> EmptyFcn]

\* an add that appends the module and records neither entry nor name
LoadedModules_add_list_only(mi, name, module, module_entry) ==
    [mi EXCEPT !.modules = Append(@, module),
               !.name2module = (name :> module) @@ @]

\* LoadedModules.add(name, module, module_entry)
LoadedModules_add(mi, name, module, module_entry) ==
    [modules |-> Append(mi.modules, module),
     name2module |-> (name :> module) @@ mi.name2module,
     module2entry |-> (module :> module_entry) @@ mi.module2entry,
     module2name |-> (module :> name) @@ mi.module2name]

-----------------------------------------------------------------------------
(* build_teb, build_peb (lines 87-134)                                     *)

build_teb(m, teb_address) ==
    LET m1 == add_memory_page(m, teb_address, Zeros(NT_TIB_StackBase))
        m2 == add_memory_page(m1, Add32(teb_address, NT_TIB_Self),
                              Zeros(NT_TIB_sizeof - NT_TIB_Self))
        m3 == add_memory_page(m2, Add32(teb_address, TEB_ProcessEnvironmentBlock),
                              Zeros(TEB_LastErrorValue - TEB_ProcessEnvironmentBlock))
        m4 == set_u32(m3, teb_address, DEFAULT_SEH)
        m5 == set_u32(m4, Add32(teb_address, NT_TIB_Self), teb_address)
    IN  set_u32(m5, Add32(teb_address, TEB_ProcessEnvironmentBlock), peb_address)

\* the page build_peb allocates: <<offset, length>>
build_peb_page(mainpe, peb_ad) ==
    IF mainpe # None THEN <<Add32(peb_ad, 8), 4 + 4>>
    ELSE <<Add32(peb_ad, 12), 0 + 4>>

build_peb(m, mainpe, peb_ad) ==
    LET pg == build_peb_page(mainpe, peb_ad)
        m1 == add_memory_page(m, pg[1], Zeros(pg[2]))
        m2 == IF mainpe # None
              THEN set_u32(m1, Add32(peb_ad, PEB_ImageBaseAddress), mainpe.ImageBase)
              ELSE m1
    IN  set_u32(m2, Add32(peb_ad, PEB_Ldr), peb_ldr_data_address)

-----------------------------------------------------------------------------
(* create_modules_chain (lines 247-299)                                    *)

offset_name == 1280     \* 0x500
offset_path == 1536     \* 0x600
slot_stride == 4096     \* 0x1000

\* a loop body that allocates the descriptor page of a module without image
create_module_page_for_none(st, i, fname, pe_obj) ==
    LET addr == Add32(Add32(LDR_AD, modules_list_offset), i * slot_stride)
    IN  IF pe_obj = None
        THEN [st EXCEPT !.vm = add_memory_page(@, addr, Zeros(LdrDataEntry_Flags))]
        ELSE [mi |-> LoadedModules_add(st.mi, Lower(Basename(fname)), pe_obj, addr),
              vm |-> add_memory_page(st.vm, addr, Zeros(LdrDataEntry_Flags))]

\* one iteration of the loop, for item number i (from 1) of the table
create_module(st, i, fname, pe_obj) ==
    IF pe_obj = None THEN st
    ELSE
    LET addr == Add32(Add32(LDR_AD, modules_list_offset), i * slot_stride)
        bpath == ReplaceSlash(fname)
        bname_str == Lower(Basename(fname))
        bname == JoinNul(bname_str) \o <<0>>
        mi == LoadedModules_add(st.mi, bname_str, pe_obj, addr)
        m1 == add_memory_page(st.vm, addr, Zeros(LdrDataEntry_Flags))
        m2 == set_u32(m1, Add32(addr, LdrDataEntry_DllBase), pe_obj.ImageBase)
        m3 == set_u32(m2, Add32(addr, LdrDataEntry_EntryPoint), pe_obj.AddressOfEntryPoint)
        m4 == set_u32(m3, Add32(addr, LdrDataEntry_SizeOfImage), pe_obj.sizeofimage)
        m5 == set_mem(m4, Add32(addr, LdrDataEntry_FullDllName), pck16(Len(bname)))
        m6 == set_mem(m5, Add32(addr, LdrDataEntry_FullDllName + UnicodeString_maxlength),
                      pck16(Len(bname) + 2))
        m7 == set_u32(m6, Add32(addr, LdrDataEntry_FullDllName + UnicodeString_data),
                      Add32(addr, offset_path))
        m8 == set_mem(m7, Add32(addr, LdrDataEntry_BaseDllName), pck16(Len(bname)))
        m9 == set_mem(m8, Add32(addr, LdrDataEntry_BaseDllName + UnicodeString_maxlength),
                      pck16(Len(bname) + 2))
        m10 == set_u32(m9, Add32(addr, LdrDataEntry_BaseDllName + UnicodeString_data),
                       Add32(addr, offset_name))
        m11 == add_memory_page(m10, Add32(addr, offset_name), bname \o Zeros(3))
        m12 == add_memory_page(m11, Add32(addr, offset_path),
                               JoinNul(bpath) \o <<0>> \o Zeros(3))
    IN  [mi |-> mi, vm |-> m12]

RECURSIVE create_modules_loop(_, _, _)
create_modules_loop(st, items, i) ==
    IF i > Len(items) THEN st
    ELSE create_modules_loop(create_module(st, i, items[i][1], items[i][2]), items, i + 1)

\* returns [mi, vm]; the caller tests that the table has .items()
create_modules_chain(m, table) ==
    create_modules_loop([mi |-> LoadedModules_init, vm |-> m], table.items, 1)

-----------------------------------------------------------------------------
(* Loader list fixups (lines 302-394)                                      *)

\* link_entry without the "i == len(loaded_modules) - 1" test: the last member's
\* forward link goes to the first member instead of the list head
link_entry_no_tail(m, loaded_modules, mi, offset, i) ==
    LET n == Len(loaded_modules)
        cur_module_entry == mi.module2entry[loaded_modules[i + 1]]
        prev_module == loaded_modules[((i - 1) % n) + 1]
        next_module == loaded_modules[((i + 1) % n) + 1]
        prev_module_entry == IF i = 0 THEN Add32(peb_ldr_data_address, 12)
                             ELSE mi.module2entry[prev_module]
        next_module_entry == mi.module2entry[next_module]
    IN  set_mem(m, Add32(cur_module_entry, offset),
                pck32(Add32(next_module_entry, offset)) \o
                pck32(Add32(prev_module_entry, offset)))

\* the iteration of set_link_list_entry for index i (from 0)
link_entry(m, loaded_modules, mi, offset, i) ==
    LET n == Len(loaded_modules)
        cur_module_entry == mi.module2entry[loaded_modules[i + 1]]
        prev_module == loaded_modules[((i - 1) % n) + 1]
        next_module == loaded_modules[((i + 1) % n) + 1]
        prev_module_entry == IF i = 0 THEN Add32(peb_ldr_data_address, 12)
                             ELSE mi.module2entry[prev_module]
        next_module_entry == IF i = n - 1 THEN Add32(peb_ldr_data_address, 12)
                             ELSE mi.module2entry[next_module]
    IN  set_mem(m, Add32(cur_module_entry, offset),
                pck32(Add32(next_module_entry, offset)) \o
                pck32(Add32(prev_module_entry, offset)))

RECURSIVE set_link_list_loop(_, _, _, _, _)
set_link_list_loop(m, loaded_modules, mi, offset, i) ==
    IF i >= Len(loaded_modules) THEN m
    ELSE set_link_list_loop(link_entry(m, loaded_modules, mi, offset, i),
                            loaded_modules, mi, offset, i + 1)

set_link_list_entry(m, loaded_modules, mi, offset) ==
    set_link_list_loop(m, loaded_modules, mi, offset, 0)

\* [main_pe, kernel32_pe, ntdll_pe] as the three fixups look them up
special_modules(mi) ==
    <<Get(mi.name2module, main_pe_name), Get(mi.name2module, kernel32_name),
      Get(mi.name2module, ntdll_name)>>

\* all(special_modules)
all_special(mi) == \A k \in 1..3 : special_modules(mi)[k] # None

\* [module for module in modules_info.modules if module not in special_modules]
other_modules(mi) ==
    SelectSeq(mi.modules, LAMBDA x : \A k \in 1..3 : x # special_modules(mi)[k])

\* load_order with kernel32 put before ntdll, the order of special_modules
load_order_swapped(mi) ==
    IF ~all_special(mi) THEN mi.modules
    ELSE <<special_modules(mi)[1], special_modules(mi)[2], special_modules(mi)[3]>>
         \o other_modules(mi)

\* loaded_modules of fix_InLoadOrderModuleList and fix_InMemoryOrderModuleList
load_order(mi) ==
    IF ~all_special(mi) THEN mi.modules
    ELSE <<special_modules(mi)[1], special_modules(mi)[3], special_modules(mi)[2]>>
         \o other_modules(mi)

\* init_order that keeps the main executable at the front, as load_order does
init_order_with_main(mi) ==
    IF ~all_special(mi) THEN mi.modules
    ELSE <<special_modules(mi)[1], special_modules(mi)[3], special_modules(mi)[2]>>
         \o other_modules(mi)

\* loaded_modules of fix_InInitializationOrderModuleList
init_order(mi) ==
    IF ~all_special(mi) THEN mi.modules
    ELSE <<special_modules(mi)[3], special_modules(mi)[2]>> \o other_modules(mi)

\* every link pair set_link_list_entry writes lies in mapped memory
links_mapped(m, loaded_modules, mi, offset) ==
    \A i \in 1..Len(loaded_modules) :
        is_mapped(m, Add32(mi.module2entry[loaded_modules[i]], offset), 8)

-----------------------------------------------------------------------------
(* build_ldr_data (lines 137-218)                                          *)

\* the size of the "Loader struct" page
ldr_page_size(mi) ==
    (IF Get(mi.name2module, main_pe_name) # None THEN ListEntry_sizeof * 2 ELSE 0)
    + (IF Get(mi.name2module, ntdll_name) # None THEN ListEntry_sizeof ELSE 0)

\* the list-head writes of the main_pe branch
ldr_write_main(m, mi) ==
    LET addr == Add32(LDR_AD, peb_ldr_data_offset)
        main_addr_entry == mi.module2entry[mi.name2module[main_pe_name]]
        m1 == set_u32(m, Add32(addr, LDR_InLoadOrderModuleList), main_addr_entry)
        m2 == set_u32(m1, Add32(addr, LDR_InLoadOrderModuleList + ListEntry_blink), Zero32)
        m3 == set_u32(m2, Add32(addr, LDR_InMemoryOrderModuleList),
                      Add32(main_addr_entry, LdrDataEntry_InMemoryOrderLinks))
    IN  set_u32(m3, Add32(addr, LDR_InMemoryOrderModuleList + ListEntry_blink), Zero32)

\* the list-head writes of the ntdll_pe branch
ldr_write_ntdll(m, mi) ==
    LET addr == Add32(LDR_AD, peb_ldr_data_offset)
        ntdll_addr_entry == mi.module2entry[mi.name2module[ntdll_name]]
        m1 == set_u32(m, Add32(addr, LDR_InInitializationOrderModuleList),
                      Add32(ntdll_addr_entry, LdrDataEntry_InInitializationOrderLinks))
    IN  set_u32(m1, Add32(addr, LDR_InInitializationOrderModuleList + ListEntry_blink),
                Zero32)

\* returns [vm, ok]: ok is FALSE when a list-head write falls outside the page
build_ldr_data(m, mi) ==
    LET offset == 12
        addr == Add32(LDR_AD, peb_ldr_data_offset)
        has_main == Get(mi.name2module, main_pe_name) # None
        has_ntdll == Get(mi.name2module, ntdll_name) # None
        m1 == add_memory_page(m, Add32(addr, offset), Zeros(ldr_page_size(mi)))
        m2 == IF has_main THEN ldr_write_main(m1, mi) ELSE m1
        ntdll_ok == is_mapped(m2, Add32(addr, LDR_InInitializationOrderModuleList),
                              ListEntry_sizeof)
    IN  IF has_ntdll /\ ~ntdll_ok THEN [vm |-> m2, ok |-> FALSE]
        ELSE LET m3 == IF has_ntdll THEN ldr_write_ntdll(m2, mi) ELSE m2
             IN  [vm |-> add_memory_page(m3, Add32(peb_ldr_data_address, 36),
                                         pck32(Zero32)),
                  ok |-> TRUE]

-----------------------------------------------------------------------------
(* add_process_env, add_process_parameters (lines 397-425)                 *)

\* 'ALLUSEESPROFILE=C:\\Documents and Settings\\All Users\x00'
env_str_text ==
    <<65, 76, 76, 85, 83, 69, 69, 83, 80, 82, 79, 70, 73, 76, 69, 61, 67, 58, 92,
      68, 111, 99, 117, 109, 101, 110, 116, 115, 32, 97, 110, 100, 32, 83, 101,
      116, 116, 105, 110, 103, 115, 92, 65, 108, 108, 32, 85, 115, 101, 114, 115, 0>>

add_process_env(m) ==
    LET env_str == JoinNul(env_str_text) \o Zeros(16)
    IN  set_mem(add_memory_page(m, process_environment_address, env_str),
                process_environment_address, env_str)

add_process_parameters(m) ==
    LET o1 == pck32(W(0, 4096))
        o2 == o1 \o [i \in 1..(72 - Len(o1)) |-> 69]
        o3 == o2 \o pck32(process_environment_address)
    IN  add_memory_page(m, process_parameters_address, o3)

-----------------------------------------------------------------------------
(* The register file (jitter.cpu) and the context record                   *)

\* the registers regs2ctxt and ctxt2regs cover, in the order of the source
CoveredRegs ==
    <<"GS", "FS", "ES", "DS", "EDI", "ESI", "EBX", "EDX", "ECX", "EAX", "EBP",
      "EIP", "CS", "ESP", "SS">>

RegNames == {CoveredRegs[i] : i \in 1..Len(CoveredRegs)}

\* a layout with the esp and ss fields in each other's place
ContextException_offset_crossed ==
    [dr0 |-> 4, dr1 |-> 8, dr2 |-> 12, dr3 |-> 16, dr4 |-> 20, dr5 |-> 24,
     gs |-> 140, fs |-> 144, es |-> 148, ds |-> 152,
     edi |-> 156, esi |-> 160, ebx |-> 164, edx |-> 168, ecx |-> 172,
     eax |-> 176, ebp |-> 180, eip |-> 184, cs |-> 188, eflags |-> 192,
     esp |-> 200, ss |-> 196]

\* ContextException: the offset of each field
ContextException_offset ==
    [dr0 |-> 4, dr1 |-> 8, dr2 |-> 12, dr3 |-> 16, dr4 |-> 20, dr5 |-> 24,
     gs |-> 140, fs |-> 144, es |-> 148, ds |-> 152,
     edi |-> 156, esi |-> 160, ebx |-> 164, edx |-> 168, ecx |-> 172,
     eax |-> 176, ebp |-> 180, eip |-> 184, cs |-> 188, eflags |-> 192,
     esp |-> 196, ss |-> 200]

ContextException_sizeof == 204

\* ctxt.<field> = value
ctxt_set(m, context_address, field, w) ==
    set_u32(m, Add32(context_address, ContextException_offset[field]), w)

\* ctxt.<field>
ctxt_get(m, context_address, field) ==
    get_u32(m, Add32(context_address, ContextException_offset[field]))

\* the assignments with EDI and ESI stored in each other's field
regs2ctxt_writes_crossed(c) ==
    <<<<"dr0", Zero32>>, <<"dr1", Zero32>>, <<"dr2", Zero32>>, <<"dr3", Zero32>>,
      <<"dr4", Zero32>>, <<"dr5", Zero32>>,
      <<"gs", c["GS"]>>, <<"fs", c["FS"]>>, <<"es", c["ES"]>>, <<"ds", c["DS"]>>,
      <<"edi", c["ESI"]>>, <<"esi", c["EDI"]>>, <<"ebx", c["EBX"]>>,
      <<"edx", c["EDX"]>>, <<"ecx", c["ECX"]>>, <<"eax", c["EAX"]>>,
      <<"ebp", c["EBP"]>>, <<"eip", c["EIP"]>>,
      <<"cs", c["CS"]>>, <<"esp", c["ESP"]>>, <<"ss", c["SS"]>>>>

\* the assignments of regs2ctxt after the memset, in order: <<field, value>>
regs2ctxt_writes(c) ==
    <<<<"dr0", Zero32>>, <<"dr1", Zero32>>, <<"dr2", Zero32>>, <<"dr3", Zero32>>,
      <<"dr4", Zero32>>, <<"dr5", Zero32>>,
      <<"gs", c["GS"]>>, <<"fs", c["FS"]>>, <<"es", c["ES"]>>, <<"ds", c["DS"]>>,
      <<"edi", c["EDI"]>>, <<"esi", c["ESI"]>>, <<"ebx", c["EBX"]>>,
      <<"edx", c["EDX"]>>, <<"ecx", c["ECX"]>>, <<"eax", c["EAX"]>>,
      <<"ebp", c["EBP"]>>, <<"eip", c["EIP"]>>,
      <<"cs", c["CS"]>>, <<"esp", c["ESP"]>>, <<"ss", c["SS"]>>>>

RECURSIVE ctxt_write_all(_, _, _, _)
ctxt_write_all(m, context_address, writes, i) ==
    IF i > Len(writes) THEN m
    ELSE ctxt_write_all(ctxt_set(m, context_address, writes[i][1], writes[i][2]),
                        context_address, writes, i + 1)

\* regs2ctxt(jitter, context_address): the memory afterwards. The memset and
\* the field assignments are applied in order to a blank overlay, and the
\* overlay is then laid over memory: the same bytes as writing each in place.
regs2ctxt(m, c, context_address) ==
    LET blank == [m EXCEPT !.data = EmptyFcn]
        rec == ctxt_write_all(set_mem(blank, context_address,
                                      Zeros(ContextException_sizeof)),
                              context_address, regs2ctxt_writes(c), 1)
    IN  [m EXCEPT !.data = rec.data @@ @]

\* the field ctxt2regs reads for each register
ctxt2regs_field ==
    [GS |-> "gs", FS |-> "fs", ES |-> "es", DS |-> "ds",
     EDI |-> "edi", ESI |-> "esi", EBX |-> "ebx", EDX |-> "edx", ECX |-> "ecx",
     EAX |-> "eax", EBP |-> "ebp", EIP |-> "eip", CS |-> "cs", ESP |-> "esp",
     SS |-> "ss"]

\* ctxt2regs(jitter, ctxt_ptr): the register file afterwards
ctxt2regs(m, c, ctxt_ptr) ==
    [r \in DOMAIN c |->
        IF r \in RegNames THEN ctxt_get(m, ctxt_ptr, ctxt2regs_field[r]) ELSE c[r]]

\* jitter.push_uint32_t(v): returns [vm, cpu]
push_uint32_t(st, v) ==
    LET sp == Add32(st.cpu["ESP"], -4)
    IN  [vm |-> set_u32(st.vm, sp, v), cpu |-> [st.cpu EXCEPT !["ESP"] = sp]]

\* a register value compared with a Python integer: registers read as unsigned
EqInt(w, k) == k >= 0 /\ w = W(k \div Half, k % Half)

-----------------------------------------------------------------------------
(* fake_seh_handler (lines 542-615)                                        *)

frame_size == 968                   \* 0x3c8
exception_record_offset == 232      \* 0xe8
\* a context record placed so that its last two dwords lie above the
\* reserved area
context_offset_high == frame_size - 196
context_offset == 252               \* 0xfc
fake_seh_offset == 20               \* 0x14

POISON_EH == W(43690, 43690)        \* 0xaaaaaaaa
POISON_2 == W(43690, 43707)         \* 0xaaaaaabb
POISON_3 == W(43690, 43724)         \* 0xaaaaaacc

\* a record with the code and the faulting address in each other's place
exception_record_crossed(except_code, eip) ==
    pck32(eip) \o pck32(Zero32) \o pck32(Zero32) \o pck32(except_code) \o pck32(Zero32)

\* pck32(except_code) + pck32(0) + pck32(0) + pck32(jitter.cpu.EIP) + pck32(0)
exception_record(except_code, eip) ==
    pck32(except_code) \o pck32(Zero32) \o pck32(Zero32) \o pck32(eip) \o pck32(Zero32)

\* a fake frame that forgets the previous head
fake_seh_frame_no_prev(seh_ptr) ==
    pck32(Zero32) \o pck32(POISON_EH) \o pck32(POISON_2) \o pck32(POISON_3)

\* pck32(seh_ptr) + pck32(0xaaaaaaaa) + pck32(0xaaaaaabb) + pck32(0xaaaaaacc)
fake_seh_frame(seh_ptr) ==
    pck32(seh_ptr) \o pck32(POISON_EH) \o pck32(POISON_2) \o pck32(POISON_3)

\* the four pushes with the context address and the head in each other's place
prepare_stack_crossed(st, context_address, seh_ptr, exception_record_address) ==
    push_uint32_t(
        push_uint32_t(
            push_uint32_t(
                push_uint32_t(st, seh_ptr),
                context_address),
            exception_record_address),
        return_from_exception)

\* the four pushes that prepare the handler's stack: returns [vm, cpu]
prepare_stack(st, context_address, seh_ptr, exception_record_address) ==
    push_uint32_t(
        push_uint32_t(
            push_uint32_t(
                push_uint32_t(st, context_address),
                seh_ptr),
            exception_record_address),
        return_from_exception)

\* the head set to the base of the reserved area instead of the fake frame
install_fake_seh_at_base(m, fake_seh_address, seh_ptr) ==
    set_mem(set_mem(m, fake_seh_address, fake_seh_frame(seh_ptr)),
            tib_address, pck32(Add32(fake_seh_address, -fake_seh_offset)))

\* installs the fake frame, then makes it the head: the memory afterwards
install_fake_seh(m, fake_seh_address, seh_ptr) ==
    set_mem(set_mem(m, fake_seh_address, fake_seh_frame(seh_ptr)),
            tib_address, pck32(fake_seh_address))

\* fake_seh_handler(jitter, except_code): [vm, cpu, eh, status]
\* status is "vm_error" when a read or write leaves mapped memory
fake_seh_handler(m, c, except_code) ==
    LET new_ESP == Add32(c["ESP"], -frame_size)
        exception_base_address == new_ESP
        exception_record_address == Add32(exception_base_address, exception_record_offset)
        context_address == Add32(exception_base_address, context_offset)
        fake_seh_address == Add32(exception_base_address, fake_seh_offset)
        fail(mm, cc) == [vm |-> mm, cpu |-> cc, eh |-> NoValue, status |-> "vm_error"]
    IN  IF ~is_mapped(m, context_address, ContextException_sizeof) THEN fail(m, c)
        ELSE
        LET m1 == regs2ctxt(m, c, context_address)
            seh_ptr == get_u32(m1, tib_address)
        IN  IF ~is_mapped(m1, seh_ptr, 12) THEN fail(m1, c)
            ELSE
            LET old_seh == get_u32(m1, seh_ptr)
                eh == get_u32(m1, Add32(seh_ptr, 4))
                safe_place == get_u32(m1, Add32(seh_ptr, 8))
                c1 == [c EXCEPT !["ESP"] = new_ESP]
            IN  IF ~is_mapped(m1, Add32(new_ESP, -16), frame_size + 16) THEN fail(m1, c1)
                ELSE
                LET m2 == set_mem(m1, exception_record_address,
                                  exception_record(except_code, c1["EIP"]))
                    st == prepare_stack([vm |-> m2, cpu |-> c1], context_address,
                                        seh_ptr, exception_record_address)
                    m3 == install_fake_seh(st.vm, fake_seh_address, seh_ptr)
                    \* dump_seh(jitter) only logs
                    m4 == [m3 EXCEPT !.exception_flags = 0]
                    c2 == [st.cpu EXCEPT !["exception_flags"] = 0]
                    c3 == [c2 EXCEPT !["EBX"] = Zero32]
                IN  [vm |-> m4, cpu |-> c3, eh |-> eh, status |-> "running"]

-----------------------------------------------------------------------------
(* return_from_seh (lines 659-693)                                         *)

\* a test of EAX that takes 1 for "continue" as well
disposition_one_continues(eax) ==
    IF EqInt(eax, 0) \/ EqInt(eax, 1) THEN "continue" ELSE "return"

\* the branch return_from_seh takes on EAX:
\* "continue", "NotImplementedError" or "return" (no branch matches)
disposition(eax) ==
    IF EqInt(eax, 0) THEN "continue"
    ELSE IF EqInt(eax, -1) THEN "NotImplementedError"
    ELSE IF EqInt(eax, 1) THEN "NotImplementedError"
    ELSE "return"

\* return_from_seh without the write of lines 670-673: the head stays
return_from_seh_keep_head(m, c, jpc) ==
    LET fail(mm, cc) == [vm |-> mm, cpu |-> cc, pc |-> jpc, status |-> "vm_error"]
    IN  IF ~is_mapped(m, Add32(c["ESP"], 8), 4) THEN fail(m, c)
        ELSE
        LET context_address == get_u32(m, Add32(c["ESP"], 8))
        IN  IF ~is_mapped(m, Add32(context_address, 196), 4) THEN fail(m, c)
            ELSE
            LET c1 == [c EXCEPT !["ESP"] = get_u32(m, Add32(context_address, 196))]
                old_seh == get_u32(m, tib_address)
            IN  IF ~is_mapped(m, old_seh, 4) THEN fail(m, c1)
                ELSE
                LET new_seh == get_u32(m, old_seh)
                    m1 == m
                    \* dump_seh(jitter) only logs
                    d == disposition(c1["EAX"])
                IN  IF d = "continue"
                    THEN IF ~is_mapped(m1, context_address, ContextException_sizeof)
                         THEN fail(m1, c1)
                         ELSE LET c2 == ctxt2regs(m1, c1, context_address)
                              IN  [vm |-> m1, cpu |-> c2, pc |-> c2["EIP"],
                                   status |-> "running"]
                    ELSE IF d = "NotImplementedError"
                    THEN [vm |-> m1, cpu |-> c1, pc |-> jpc,
                          status |-> "NotImplementedError"]
                    ELSE [vm |-> m1, cpu |-> c1, pc |-> jpc, status |-> "returned"]

\* return_from_seh(jitter): [vm, cpu, pc, status]
return_from_seh(m, c, jpc) ==
    LET fail(mm, cc) == [vm |-> mm, cpu |-> cc, pc |-> jpc, status |-> "vm_error"]
    IN  IF ~is_mapped(m, Add32(c["ESP"], 8), 4) THEN fail(m, c)
        ELSE
        LET context_address == get_u32(m, Add32(c["ESP"], 8))
        IN  IF ~is_mapped(m, Add32(context_address, 196), 4) THEN fail(m, c)
            ELSE
            LET c1 == [c EXCEPT !["ESP"] = get_u32(m, Add32(context_address, 196))]
                old_seh == get_u32(m, tib_address)
            IN  IF ~is_mapped(m, old_seh, 4) THEN fail(m, c1)
                ELSE
                LET new_seh == get_u32(m, old_seh)
                    m1 == set_mem(m, tib_address, pck32(new_seh))
                    \* dump_seh(jitter) only logs
                    d == disposition(c1["EAX"])
                IN  IF d = "continue"
                    THEN IF ~is_mapped(m1, context_address, ContextException_sizeof)
                         THEN fail(m1, c1)
                         ELSE LET c2 == ctxt2regs(m1, c1, context_address)
                              IN  [vm |-> m1, cpu |-> c2, pc |-> c2["EIP"],
                                   status |-> "running"]
                    ELSE IF d = "NotImplementedError"
                    THEN [vm |-> m1, cpu |-> c1, pc |-> jpc,
                          status |-> "NotImplementedError"]
                    ELSE [vm |-> m1, cpu |-> c1, pc |-> jpc, status |-> "returned"]

-----------------------------------------------------------------------------
(* dump_seh (lines 618-641), one loop iteration at a time                  *)

\* a walk that never gives up
dump_never_too_many(loop) == FALSE

\* the test that ends the walk with "Too many seh, quit"
dump_too_many(loop) == loop > MAX_SEH

\* the locals before the first iteration
dump_seh_start(m) ==
    [pc |-> "loop", cur_seh_ptr |-> get_u32(m, tib_address), loop |-> 0, reads |-> 0]

\* one pass through the body of "while True"
dump_seh_step(m, w) ==
    IF dump_too_many(w.loop) THEN [w EXCEPT !.pc = "quit"]
    ELSE IF ~is_mapped(m, w.cur_seh_ptr, 8) THEN [w EXCEPT !.pc = "done"]
    ELSE LET prev_seh == get_u32(m, w.cur_seh_ptr)
             eh == get_u32(m, Add32(w.cur_seh_ptr, 4))
         IN  IF prev_seh = Zero32
             THEN [w EXCEPT !.pc = "done", !.reads = @ + 1]
             ELSE [pc |-> "loop", cur_seh_ptr |-> prev_seh, loop |-> w.loop + 1,
                   reads |-> w.reads + 1]

-----------------------------------------------------------------------------
(* States before init_seh                                                  *)

EmptyVm == [pages |-> {}, data |-> EmptyFcn, fill |-> 0, exception_flags |-> 0]

\* a register file whose registers all differ; k selects the pattern
RegFile(k) ==
    [GS |-> W(0, 16 * k + 1), FS |-> W(0, 16 * k + 2), ES |-> W(0, 16 * k + 3),
     DS |-> W(0, 16 * k + 4),
     EDI |-> W(4096 * k + 5, k), ESI |-> W(4096 * k + 6, 65535),
     EBX |-> W(4096 * k + 7, k), EDX |-> W(65535, 65535 - k),
     ECX |-> W(32768 + k, 9), EAX |-> W(49152, k),
     EBP |-> W(18, 65280 + k), EIP |-> W(64, 4096 + 16 * k),
     CS |-> W(0, 16 * k + 13), ESP |-> W(19, 0), SS |-> W(0, 16 * k + 15),
     exception_flags |-> 0]

IdleWalk == [pc |-> "idle", cur_seh_ptr |-> Zero32, loop |-> 0, reads |-> 0]

NoOp == [op |-> "none"]

-----------------------------------------------------------------------------
(* init_seh (lines 432-450), one call at a time                            *)

InitLdr ==
    /\ name2module \in Tables
    /\ main_pe \in {None, PeMain}
    /\ modules_info = LoadedModules_init
    /\ init_pc = "build_teb"
    /\ vm = EmptyVm
    /\ cpu = RegFile(1)
    /\ pc = RegFile(1)["EIP"]
    /\ seh_count = 0
    /\ eh_ret = NoValue
    /\ status = "running"
    /\ faults = <<>>
    /\ last = NoOp
    /\ frames = <<>>
    /\ walk = IdleWalk

InitStep(here, next) ==
    /\ status = "running"
    /\ init_pc = here
    /\ init_pc' = next
    /\ UNCHANGED <<name2module, main_pe, cpu, pc, eh_ret, faults, last, frames, walk>>

Do_build_teb ==
    /\ InitStep("build_teb", "build_peb")
    /\ seh_count' = 0
    /\ vm' = build_teb(vm, FS_0_AD)
    /\ UNCHANGED <<modules_info, status>>

Do_build_peb ==
    /\ InitStep("build_peb", "create_modules_chain")
    /\ vm' = build_peb(vm, main_pe, peb_address)
    /\ UNCHANGED <<modules_info, status, seh_count>>

\* name2module.items() exists only if name2module is a dict
Do_create_modules_chain ==
    /\ InitStep("create_modules_chain", "fix_InLoadOrderModuleList")
    /\ IF name2module.kind = "dict"
       THEN LET r == create_modules_chain(vm, name2module)
            IN  /\ modules_info' = r.mi
                /\ vm' = r.vm
                /\ status' = "running"
       ELSE /\ status' = "AttributeError"
            /\ UNCHANGED <<modules_info, vm>>
    /\ UNCHANGED seh_count

\* a fixup's set_mem calls fail when a link pair is not mapped
FixStep(here, next, loaded_modules, offset) ==
    /\ InitStep(here, next)
    /\ IF links_mapped(vm, loaded_modules, modules_info, offset)
       THEN /\ vm' = set_link_list_entry(vm, loaded_modules, modules_info, offset)
            /\ status' = "running"
       ELSE /\ status' = "vm_error"
            /\ UNCHANGED vm
    /\ UNCHANGED <<modules_info, seh_count>>

Do_fix_InLoadOrderModuleList ==
    FixStep("fix_InLoadOrderModuleList", "fix_InMemoryOrderModuleList",
            load_order(modules_info), 0)

Do_fix_InMemoryOrderModuleList ==
    FixStep("fix_InMemoryOrderModuleList", "fix_InInitializationOrderModuleList",
            load_order(modules_info), 8)

Do_fix_InInitializationOrderModuleList ==
    FixStep("fix_InInitializationOrderModuleList", "build_ldr_data",
            init_order(modules_info), 16)

Do_build_ldr_data ==
    /\ InitStep("build_ldr_data", "add_process_env")
    /\ LET r == build_ldr_data(vm, modules_info)
       IN  /\ vm' = r.vm
           /\ status' = IF r.ok THEN "running" ELSE "vm_error"
    /\ UNCHANGED <<modules_info, seh_count>>

Do_add_process_env ==
    /\ InitStep("add_process_env", "add_process_parameters")
    /\ vm' = add_process_env(vm)
    /\ UNCHANGED <<modules_info, status, seh_count>>

Do_add_process_parameters ==
    /\ InitStep("add_process_parameters", "done")
    /\ vm' = add_process_parameters(vm)
    /\ UNCHANGED <<modules_info, status, seh_count>>

NextLdr ==
    \/ Do_build_teb
    \/ Do_build_peb
    \/ Do_create_modules_chain
    \/ Do_fix_InLoadOrderModuleList
    \/ Do_fix_InMemoryOrderModuleList
    \/ Do_fix_InInitializationOrderModuleList
    \/ Do_build_ldr_data
    \/ Do_add_process_env
    \/ Do_add_process_parameters

SpecLdr == InitLdr /\ [][NextLdr]_vars

-----------------------------------------------------------------------------
(* Reading the loader lists back                                           *)

Reg(name) == Get(modules_info.name2module, name)

EntryOf(x) == modules_info.module2entry[x]

AllThree == Reg(main_pe_name) # None /\ Reg(ntdll_name) # None /\ Reg(kernel32_name) # None

\* the registered modules that are none of the three named ones, as registered
Others ==
    SelectSeq(modules_info.modules,
              LAMBDA x : x \notin {Reg(main_pe_name), Reg(ntdll_name), Reg(kernel32_name)})

\* the members the load-order and memory-order lists are to have
RequiredLoad ==
    IF AllThree
    THEN <<Reg(main_pe_name), Reg(ntdll_name), Reg(kernel32_name)>> \o Others
    ELSE modules_info.modules

\* the members the initialization-order list is to have
RequiredInit ==
    IF AllThree THEN <<Reg(ntdll_name), Reg(kernel32_name)>> \o Others
    ELSE modules_info.modules

\* the list head in the loader-data record for link offset off (0, 8 or 16)
ListHead(off) == Add32(Add32(peb_ldr_data_address, 12), off)

\* the link-field addresses of the members, in order
Nodes(members, off) == [i \in 1..Len(members) |-> Add32(EntryOf(members[i]), off)]

Reverse(q) == [i \in 1..Len(q) |-> q[Len(q) + 1 - i]]

RECURSIVE FollowLinks(_, _, _, _, _)
\* the nodes met from cur by the link at +link until head is met again;
\* NoValue ends the result when a link cannot be read or fuel runs out
FollowLinks(cur, head, link, fuel, acc) ==
    IF ~is_mapped(vm, Add32(cur, link), 4) THEN Append(acc, NoValue)
    ELSE LET nxt == get_u32(vm, Add32(cur, link))
         IN  IF nxt = head THEN acc
             ELSE IF fuel = 0 THEN Append(acc, NoValue)
             ELSE FollowLinks(nxt, head, link, fuel - 1, Append(acc, nxt))

Forward(off) == FollowLinks(ListHead(off), ListHead(off), 0, MaxModules + 2, <<>>)

Backward(off) == FollowLinks(ListHead(off), ListHead(off), 4, MaxModules + 2, <<>>)

LinkOffsets == {0, 8, 16}

Required(off) == IF off = 16 THEN RequiredInit ELSE RequiredLoad

InitSehDone == init_pc = "done"

FixupsDone ==
    init_pc \in {"build_ldr_data", "add_process_env", "add_process_parameters", "done"}

\* C1: after init_seh, each loader list read forward from its head is exactly
\* its required members and comes back to the head, and read backward from the
\* head it is the same members reversed.
C1_ListsCircular ==
    InitSehDone =>
        \A off \in LinkOffsets :
            /\ Forward(off) = Nodes(Required(off), off)
            /\ Backward(off) = Reverse(Nodes(Required(off), off))

LinkPair(x, off) ==
    <<get_u32(vm, Add32(EntryOf(x), off)), get_u32(vm, Add32(EntryOf(x), off + 4))>>

\* descriptor x is linked through link offset off: its own pair is set, or the
\* list head or another descriptor points at it
LinkedThrough(x, off) ==
    LET node == Add32(EntryOf(x), off)
    IN  \/ LinkPair(x, off) # <<Zero32, Zero32>>
        \/ \E y \in DOMAIN modules_info.module2entry :
              LinkPair(y, off)[1] = node \/ LinkPair(y, off)[2] = node
        \/ /\ is_mapped(vm, ListHead(off), 8)
           /\ node \in {get_u32(vm, ListHead(off)), get_u32(vm, Add32(ListHead(off), 4))}

\* C6 as stated: whatever the module table, the main executable's descriptor
\* is never linked through link offset 0x10.
C6_MainNeverInInitList ==
    Reg(main_pe_name) # None => ~LinkedThrough(Reg(main_pe_name), 16)

\* C6 as amended: when the main executable, ntdll.dll and kernel32.dll are all
\* registered, the main executable's descriptor is never linked through link
\* offset 0x10.
C6_MainNotInInitListWhenAllThree ==
    AllThree => ~LinkedThrough(Reg(main_pe_name), 16)

\* init_seh is over, all three are registered and the initialization-order
\* list has members
C6_Witness ==
    /\ InitSehDone
    /\ AllThree
    /\ Len(Forward(16)) >= 3
    /\ LinkedThrough(Reg(main_pe_name), 0)

\* C7: when one of the three named modules is not registered, the fixups end
\* without error and, for each link offset, every registered module's forward
\* link is the next registered module (the list head after the last) and its
\* backward link the previous one (the list head before the first).
C7_FallbackRegistrationOrder ==
    (FixupsDone /\ ~AllThree) =>
        /\ init_pc = "build_ldr_data" => status = "running"
        /\ \A off \in LinkOffsets :
              LET mods == modules_info.modules
                  node(i) == IF i = 0 \/ i = Len(mods) + 1 THEN ListHead(off)
                             ELSE Add32(EntryOf(mods[i]), off)
              IN  \A i \in 1..Len(mods) :
                     LinkPair(mods[i], off) = <<node(i + 1), node(i - 1)>>

\* the fixups are over, kernel32.dll is missing, three modules are registered
\* and the main executable is not the first of them
C7_Witness ==
    /\ init_pc = "build_ldr_data"
    /\ Reg(kernel32_name) = None
    /\ Reg(main_pe_name) # None
    /\ Len(modules_info.modules) >= 3
    /\ modules_info.modules[1] # Reg(main_pe_name)
    /\ LinkPair(modules_info.modules[1], 16)[2] = ListHead(16)

PebBuilt == init_pc \notin {"build_teb", "build_peb"}

\* the four bytes of a process-block field are neither mapped nor written
FieldOmitted(ad) ==
    \A i \in 0..3 :
        /\ ~is_mapped(vm, Add32(ad, i), 1)
        /\ Add32(ad, i) \notin DOMAIN vm.data

\* C8: init_seh on an empty module table with no main module ends without an
\* error; the image-base field of the process block is allocated and written
\* exactly when a main module is known, and the loader-data pointer is written
\* either way.
C8_EmptyTableBuilds ==
    /\ (Len(name2module.items) = 0 /\ main_pe = None) => status = "running"
    /\ PebBuilt =>
          /\ is_mapped(vm, Add32(peb_address, PEB_Ldr), 4)
          /\ get_u32(vm, Add32(peb_address, PEB_Ldr)) = peb_ldr_data_address
          /\ IF main_pe = None
             THEN FieldOmitted(Add32(peb_address, PEB_ImageBaseAddress))
             ELSE /\ is_mapped(vm, Add32(peb_address, PEB_ImageBaseAddress), 4)
                  /\ get_u32(vm, Add32(peb_address, PEB_ImageBaseAddress))
                        = main_pe.ImageBase

-----------------------------------------------------------------------------
(* The guest running after init_seh: faults, handlers, resumes             *)

\* most dispatches in one run, most guest frames installed at once
MaxFaults == 2
MaxFrames == 1

\* the guest's stack: 0x120000 .. 0x12ffff, the stack pointer starts 64 below
StackPage == [ad |-> W(18, 0), size |-> 65536]
InitialESP == W(18, 65472)

\* exception codes the emulator dispatches
ExceptCodes == {EXCEPTION_ACCESS_VIOLATION, EXCEPTION_BREAKPOINT}

\* handler addresses the guest installs
GuestHandlers == {W(64, 8192)}

\* what a handler can leave in EAX: 0, 1, 2 and 0xffffffff
Dispositions == {W(0, 0), W(0, 1), W(0, 2), W(65535, 65535)}

\* where a handler can point the saved instruction pointer
PatchedEip == W(64, 4200)

\* memory after init_seh with an empty table and no main module
InitSehVm ==
    LET m1 == build_peb(build_teb(EmptyVm, FS_0_AD), None, peb_address)
        r == create_modules_chain(m1, [kind |-> "dict", items |-> <<>>])
    IN  add_process_parameters(add_process_env(build_ldr_data(r.vm, r.mi).vm))

TibHead == get_u32(vm, tib_address)

AtTrampoline == pc = return_from_exception

Init ==
    /\ name2module = [kind |-> "dict", items |-> <<>>]
    /\ main_pe = None
    /\ modules_info = LoadedModules_init
    /\ init_pc = "done"
    /\ vm = [InitSehVm EXCEPT !.pages = @ \cup {StackPage}]
    /\ cpu = [RegFile(1) EXCEPT !["ESP"] = InitialESP]
    /\ pc = cpu["EIP"]
    /\ seh_count = 0
    /\ eh_ret = NoValue
    /\ status = "running"
    /\ faults = <<>>
    /\ last = NoOp
    /\ frames = <<>>
    /\ walk = IdleWalk

\* the guest installs a frame: push handler; push fs:[0]; mov fs:[0], esp
GuestInstall(h) ==
    /\ status = "running"
    /\ ~AtTrampoline
    /\ Len(frames) < MaxFrames
    /\ LET sp == Add32(cpu["ESP"], -8)
           m1 == set_u32(set_u32(vm, Add32(sp, 4), h), sp, TibHead)
       IN  /\ vm' = set_u32(m1, tib_address, sp)
           /\ cpu' = [cpu EXCEPT !["ESP"] = sp]
           /\ frames' = <<sp>> \o frames
    /\ last' = NoOp
    /\ UNCHANGED <<name2module, main_pe, modules_info, init_pc, pc, seh_count,
                   eh_ret, status, faults, walk>>

\* the guest removes its innermost frame: pop fs:[0]; add esp, 4
GuestRemove ==
    /\ status = "running"
    /\ ~AtTrampoline
    /\ frames # <<>>
    /\ TibHead = cpu["ESP"]
    /\ vm' = set_u32(vm, tib_address, get_u32(vm, cpu["ESP"]))
    /\ cpu' = [cpu EXCEPT !["ESP"] = Add32(cpu["ESP"], 8)]
    /\ frames' = Tail(frames)
    /\ last' = NoOp
    /\ UNCHANGED <<name2module, main_pe, modules_info, init_pc, pc, seh_count,
                   eh_ret, status, faults, walk>>

\* the emulator traps a fault and calls fake_seh_handler, then jumps to the
\* address it returns. Guest code outside handlers raises either code; a
\* fault taken inside a handler is an access violation. The jump moves the
\* instruction pointer with the program counter.
Dispatch(except_code) ==
    /\ status = "running"
    /\ ~AtTrampoline
    /\ seh_count < MaxFaults
    /\ faults # <<>> => except_code = EXCEPTION_ACCESS_VIOLATION
    /\ LET r == fake_seh_handler(vm, cpu, except_code)
       IN  /\ vm' = r.vm
           /\ cpu' = IF r.status = "running"
                      THEN [r.cpu EXCEPT !["EIP"] = r.eh]
                      ELSE r.cpu
           /\ eh_ret' = r.eh
           /\ status' = r.status
           /\ pc' = IF r.status = "running" THEN r.eh ELSE pc
           /\ faults' = IF r.status = "running"
                        THEN <<[cpu |-> cpu, pc |-> pc, head |-> TibHead,
                                code |-> except_code,
                                base |-> Add32(cpu["ESP"], -frame_size),
                                modified |-> FALSE]>> \o faults
                        ELSE faults
           /\ last' = [op |-> "dispatch", status |-> r.status]
    /\ seh_count' = seh_count + 1
    /\ UNCHANGED <<name2module, main_pe, modules_info, init_pc, frames, walk>>

\* the handler, entered with the return address on top of the stack
InHandler ==
    /\ status = "running"
    /\ ~AtTrampoline
    /\ get_u32(vm, cpu["ESP"]) = return_from_exception

\* the handler returns: it may have changed the saved instruction pointer
\* through its context argument, [esp + 0xc]; its registers are its own, EAX
\* holds the disposition, ret pops the return address and execution reaches
\* the trampoline. A handler that redirects the context asks to continue.
HandlerRet(d, patch) ==
    /\ InHandler
    /\ faults # <<>>
    /\ patch => d = Zero32
    /\ LET ctx == get_u32(vm, Add32(cpu["ESP"], 12))
       IN  vm' = IF patch THEN ctxt_set(vm, ctx, "eip", PatchedEip) ELSE vm
    /\ faults' = [faults EXCEPT ![1].modified = patch]
    /\ cpu' = [RegFile(3) EXCEPT !["ESP"] = Add32(cpu["ESP"], 4), !["EAX"] = d,
                                 !["EIP"] = return_from_exception]
    /\ pc' = return_from_exception
    /\ last' = NoOp
    /\ UNCHANGED <<name2module, main_pe, modules_info, init_pc, seh_count,
                   eh_ret, status, frames, walk>>

\* the emulator reaches return_from_exception and calls return_from_seh
Resume ==
    /\ status = "running"
    /\ AtTrampoline
    /\ LET r == return_from_seh(vm, cpu, pc)
       IN  /\ vm' = r.vm
           /\ cpu' = r.cpu
           /\ pc' = r.pc
           /\ status' = r.status
           /\ last' = [op |-> "resume", status |-> r.status, eax |-> cpu["EAX"],
                       entry_cpu |-> cpu, entry_head |-> TibHead,
                       fault |-> IF faults # <<>> THEN Head(faults) ELSE None]
    /\ faults' = IF faults # <<>> THEN Tail(faults) ELSE faults
    /\ UNCHANGED <<name2module, main_pe, modules_info, init_pc, seh_count, eh_ret,
                   frames, walk>>

Next ==
    \/ \E h \in GuestHandlers : GuestInstall(h)
    \/ GuestRemove
    \/ \E c \in ExceptCodes : Dispatch(c)
    \/ \E d \in Dispositions, patch \in BOOLEAN : HandlerRet(d, patch)
    \/ Resume

Spec == Init /\ [][Next]_vars


-----------------------------------------------------------------------------
(* Claims about faults, handlers and resumes                               *)

\* the last step was a resume that followed a dispatch
Resumed == last.op = "resume" /\ last.fault # None

\* the fake frame of a fault record
SyntheticFrame(f) == Add32(f.base, fake_seh_offset)

\* the fake frames of the dispatches whose resume has not happened yet
SyntheticFrames == {SyntheticFrame(faults[i]) : i \in 1..Len(faults)}

\* the frames the guest has installed and not removed
RealFrames == {frames[i] : i \in 1..Len(frames)}

\* C2: every resume that follows a dispatch and finds EAX different from 0
\* ends in NotImplementedError; it never returns normally and never continues.
C2_NonZeroDispositionIsFatal ==
    (Resumed /\ last.eax # Zero32) => status = "NotImplementedError"

\* C3: an access-violation dispatch followed by a resume with EAX = 0, the
\* handler having changed nothing of the saved context, leaves every covered
\* register at its pre-fault value, the program counter at the faulting
\* instruction, the stack pointer where it was and the TIB head as it was.
C3_DispatchResumeRestores ==
    (/\ Resumed
     /\ last.fault.code = EXCEPTION_ACCESS_VIOLATION
     /\ last.eax = Zero32
     /\ ~last.fault.modified)
    => /\ status = "running"
       /\ \A r \in RegNames : cpu[r] = last.fault.cpu[r]
       /\ pc = last.fault.pc
       /\ pc = last.fault.cpu["EIP"]
       /\ cpu["ESP"] = last.fault.cpu["ESP"]
       /\ TibHead = last.fault.head

\* C3 happens: such a resume ran on registers the handler had overwritten and
\* on a head that was the fake frame, and put the pre-fault values back
C3_Witness ==
    /\ Resumed
    /\ last.fault.code = EXCEPTION_ACCESS_VIOLATION
    /\ last.eax = Zero32
    /\ ~last.fault.modified
    /\ last.entry_cpu["ESI"] # last.fault.cpu["ESI"]
    /\ last.entry_head = SyntheticFrame(last.fault)
    /\ cpu["ESI"] = last.fault.cpu["ESI"]
    /\ TibHead = last.fault.head
    /\ TibHead \in RealFrames

\* C9: the TIB head is DEFAULT_SEH, a frame the guest installed, or the fake
\* frame of a dispatch not yet resumed; once a resume has completed the head
\* is not the fake frame of the dispatch it resumed.
C9_HeadIsKnownFrame ==
    /\ TibHead \in {DEFAULT_SEH} \cup RealFrames \cup SyntheticFrames
    /\ Resumed => TibHead # SyntheticFrame(last.fault)

\* C9 happens: a nested resume took the head from the inner fake frame back
\* to the outer one, which is still active
C9_Witness ==
    /\ Resumed
    /\ status = "running"
    /\ last.entry_head = SyntheticFrame(last.fault)
    /\ TibHead \in SyntheticFrames
    /\ TibHead # last.entry_head


-----------------------------------------------------------------------------
(* regs2ctxt and ctxt2regs on their own: any registers, any memory          *)

\* where a context record is built: inside the stack page, and across the
\* boundary between it and the page that follows
CtxPage == [ad |-> W(19, 0), size |-> 4096]
CtxAddrs == {W(18, 4096), W(18, 65436)}

\* what unwritten memory reads as, and what a stale record is made of
CtxFills == {0, 204}
StaleBytes == {255, 90}

\* the register files the guest can be running with
CtxRegFiles == {[RegFile(k) EXCEPT !["ESP"] = Add32(InitialESP, -16 * k)] : k \in 1..3}

InitCtx ==
    /\ name2module = [kind |-> "dict", items |-> <<>>]
    /\ main_pe = None
    /\ modules_info = LoadedModules_init
    /\ init_pc = "done"
    /\ \E f \in CtxFills :
          vm = [EmptyVm EXCEPT !.pages = {StackPage, CtxPage}, !.fill = f]
    /\ cpu \in CtxRegFiles
    /\ pc = cpu["EIP"]
    /\ seh_count = 0
    /\ eh_ret = NoValue
    /\ status = "running"
    /\ faults = <<>>
    /\ last = NoOp
    /\ frames = <<>>
    /\ walk = IdleWalk

\* earlier use of the stack left bytes where a record will be built
CtxStale(ad, b) ==
    /\ last = NoOp
    /\ is_mapped(vm, ad, ContextException_sizeof)
    /\ vm' = set_mem(vm, ad, [i \in 1..ContextException_sizeof |-> b])
    /\ UNCHANGED <<name2module, main_pe, modules_info, init_pc, cpu, pc, seh_count,
                   eh_ret, status, faults, last, frames, walk>>

\* regs2ctxt(jitter, ad)
CtxSave(ad) ==
    /\ last.op \in {"none", "ctxt2regs"}
    /\ is_mapped(vm, ad, ContextException_sizeof)
    /\ vm' = regs2ctxt(vm, cpu, ad)
    /\ last' = [op |-> "regs2ctxt", ad |-> ad, cpu |-> cpu,
                before |-> get_mem(vm, ad, ContextException_sizeof)]
    /\ UNCHANGED <<name2module, main_pe, modules_info, init_pc, cpu, pc, seh_count,
                   eh_ret, status, faults, frames, walk>>

\* the guest runs on and its registers change
CtxClobber(c) ==
    /\ last.op = "regs2ctxt"
    /\ c # cpu
    /\ cpu' = c
    /\ pc' = c["EIP"]
    /\ UNCHANGED <<name2module, main_pe, modules_info, init_pc, vm, seh_count,
                   eh_ret, status, faults, last, frames, walk>>

\* ctxt2regs(jitter, ad) on the record saved last
CtxRestore ==
    /\ last.op = "regs2ctxt"
    /\ cpu' = ctxt2regs(vm, cpu, last.ad)
    /\ pc' = pc
    /\ last' = [op |-> "ctxt2regs", ad |-> last.ad, cpu |-> last.cpu,
                entry_cpu |-> cpu, before |-> last.before]
    /\ UNCHANGED <<name2module, main_pe, modules_info, init_pc, vm, seh_count,
                   eh_ret, status, faults, frames, walk>>

NextCtx ==
    \/ \E ad \in CtxAddrs, b \in StaleBytes : CtxStale(ad, b)
    \/ \E ad \in CtxAddrs : CtxSave(ad)
    \/ \E c \in CtxRegFiles : CtxClobber(c)
    \/ CtxRestore

SpecCtx == InitCtx /\ [][NextCtx]_vars

\* the fields of the record no register is stored in
ZeroedFields == {"dr0", "dr1", "dr2", "dr3", "dr4", "dr5", "eflags"}

\* C4: restoring from the address just saved to writes back the saved value
\* of every covered register, and after a save the debug-register fields and
\* the flags field are zero whatever the registers and the memory were.
C4_SaveRestoreRoundTrip ==
    /\ last.op = "ctxt2regs" =>
          \A r \in RegNames : cpu[r] = last.cpu[r]
    /\ last.op = "regs2ctxt" =>
          \A f \in ZeroedFields : ctxt_get(vm, last.ad, f) = Zero32

\* C4 happens: a record was saved over stale non-zero bytes, the registers
\* changed, and the restore brought the saved ones back
C4_Witness ==
    /\ last.op = "ctxt2regs"
    /\ \A r \in RegNames : last.entry_cpu[r] # last.cpu[r]
    /\ \A r \in RegNames : cpu[r] = last.cpu[r]
    /\ \A f \in ZeroedFields : ctxt_get(vm, last.ad, f) = Zero32
    /\ \A f \in ZeroedFields :
          last.before[ContextException_offset[f] + 1] \in StaleBytes


-----------------------------------------------------------------------------
(* dump_seh on chains of every shape                                       *)

\* the longest chain built, longer than the walk is willing to follow
MaxChain == 7

\* where the i-th frame of a chain lies, the head first
ChainFrame(i) == Add32(InitialESP, 8 * (i - 1))

\* where the last frame of a chain of n frames can point: the end mark, an
\* unmapped address, itself or any frame before it
ChainEnds(n) == {Zero32, DEFAULT_SEH} \cup {ChainFrame(j) : j \in 1..n}

RECURSIVE write_chain(_, _, _, _)
\* frames i..n written as the guest's pushes leave them: previous link, handler
write_chain(m, i, n, end) ==
    IF i > n THEN m
    ELSE LET prev == IF i < n THEN ChainFrame(i + 1) ELSE end
             h == CHOOSE g \in GuestHandlers : TRUE
         IN  write_chain(set_u32(set_u32(m, ChainFrame(i), prev),
                                 Add32(ChainFrame(i), 4), h),
                         i + 1, n, end)

\* memory holding a chain of n frames that ends in end
ChainVm(n, end) ==
    LET m0 == build_teb([EmptyVm EXCEPT !.pages = {StackPage}], FS_0_AD)
    IN  IF n = 0 THEN m0
        ELSE set_u32(write_chain(m0, 1, n, end), tib_address, ChainFrame(1))

InitDump ==
    /\ name2module = [kind |-> "dict", items |-> <<>>]
    /\ main_pe = None
    /\ modules_info = LoadedModules_init
    /\ init_pc = "done"
    /\ \E n \in 0..MaxChain : \E end \in ChainEnds(n) :
          /\ vm = ChainVm(n, end)
          /\ frames = [i \in 1..n |-> ChainFrame(i)]
    /\ cpu = [RegFile(1) EXCEPT !["ESP"] = InitialESP]
    /\ pc = cpu["EIP"]
    /\ seh_count = 0
    /\ eh_ret = NoValue
    /\ status = "running"
    /\ faults = <<>>
    /\ last = NoOp
    /\ walk = IdleWalk

\* dump_seh is called: lines 624-627
DumpStart ==
    /\ walk.pc = "idle"
    /\ walk' = dump_seh_start(vm)
    /\ UNCHANGED <<name2module, main_pe, modules_info, init_pc, vm, cpu, pc,
                   seh_count, eh_ret, status, faults, last, frames>>

\* one iteration of its loop: lines 628-641
DumpStep ==
    /\ walk.pc = "loop"
    /\ walk' = dump_seh_step(vm, walk)
    /\ UNCHANGED <<name2module, main_pe, modules_info, init_pc, vm, cpu, pc,
                   seh_count, eh_ret, status, faults, last, frames>>

NextDump == DumpStart \/ DumpStep

SpecDump == InitDump /\ [][NextDump]_vars

\* the chain in memory comes back to a frame it has already passed
ChainLoops ==
    \E i \in 1..Len(frames) : get_u32(vm, frames[Len(frames)]) = frames[i]

\* C10: dump_seh reads at most MAX_SEH + 1 frames on every chain, also one
\* that points back to itself or to an earlier frame; while it has not
\* stopped every frame read is one more hop, so it stops within that many.
C10_WalkBounded ==
    /\ walk.reads <= MAX_SEH + 1
    /\ walk.loop <= MAX_SEH + 1
    /\ walk.pc = "loop" => walk.reads = walk.loop

\* C10 happens: on a chain that loops the walk gave up after MAX_SEH + 1 frames
C10_Witness ==
    /\ ChainLoops
    /\ walk.pc = "quit"
    /\ walk.reads = MAX_SEH + 1


-----------------------------------------------------------------------------
(* Claims about what a dispatch leaves in memory and in the registers      *)

\* the last step was a dispatch that went through
Dispatched == last.op = "dispatch" /\ last.status = "running"

\* C11: the exception record a dispatch writes at frame base + 0xe8 is five
\* dwords: the exception code, 0, 0, the instruction pointer at the time of
\* the fault, 0.
C11_ExceptionRecord ==
    Dispatched =>
        LET f == faults[1]
            rec == Add32(f.base, 232)
        IN  /\ f.base = Add32(f.cpu["ESP"], -968)
            /\ get_u32(vm, rec) = f.code
            /\ get_u32(vm, Add32(rec, 4)) = Zero32
            /\ get_u32(vm, Add32(rec, 8)) = Zero32
            /\ get_u32(vm, Add32(rec, 12)) = f.cpu["EIP"]
            /\ f.cpu["EIP"] = f.pc
            /\ get_u32(vm, Add32(rec, 16)) = Zero32

\* C11 happens: a breakpoint dispatched from the guest's own code,
\* and an access violation dispatched from inside a handler
C11_Witness ==
    /\ Dispatched
    /\ Len(faults) = 2
    /\ faults[2].code = EXCEPTION_BREAKPOINT
    /\ faults[1].code = EXCEPTION_ACCESS_VIOLATION
    /\ faults[1].pc \in GuestHandlers
    /\ get_u32(vm, Add32(faults[1].base, 232)) = EXCEPTION_ACCESS_VIOLATION
    /\ get_u32(vm, Add32(faults[1].base, 244)) = faults[1].pc
    /\ get_u32(vm, Add32(faults[2].base, 232)) = EXCEPTION_BREAKPOINT


-----------------------------------------------------------------------------
(* LoadedModules.add called in any order with any arguments                *)

\* most calls of add in one run
MaxAdds == 3

\* the arguments add is called with: two names, two image objects and two
\* descriptor addresses, so names, modules and addresses all repeat
AddNames == {Lower(Basename(FnA)), Lower(Basename(FnKernel32))}
AddModules == {PeObj(4), PeObj(5)}
AddEntries == {Add32(Add32(LDR_AD, modules_list_offset), i * slot_stride) : i \in 1..2}

InitMods ==
    /\ name2module = [kind |-> "dict", items |-> <<>>]
    /\ main_pe = None
    /\ modules_info = LoadedModules_init
    /\ init_pc = "done"
    /\ vm = EmptyVm
    /\ cpu = RegFile(1)
    /\ pc = cpu["EIP"]
    /\ seh_count = 0
    /\ eh_ret = NoValue
    /\ status = "running"
    /\ faults = <<>>
    /\ last = NoOp
    /\ frames = <<>>
    /\ walk = IdleWalk

\* modules_info.add(name, module, module_entry)
ModsAdd(name, module, module_entry) ==
    /\ Len(modules_info.modules) < MaxAdds
    /\ modules_info' = LoadedModules_add(modules_info, name, module, module_entry)
    /\ last' = [op |-> "add", name |-> name, module |-> module,
                module_entry |-> module_entry]
    /\ UNCHANGED <<name2module, main_pe, init_pc, vm, cpu, pc, seh_count, eh_ret,
                   status, faults, frames, walk>>

NextMods ==
    \E name \in AddNames, module \in AddModules, module_entry \in AddEntries :
        ModsAdd(name, module, module_entry)

SpecMods == InitMods /\ [][NextMods]_vars

\* the values a dict holds for key x
ValuesFor(d, x) == {d[k] : k \in {y \in DOMAIN d : y = x}}

\* C12: after any calls of add, every module in the sequence modules has
\* exactly one descriptor address in module2entry and exactly one name in
\* module2name; they are those of the last add of that module.
C12_OneEntryOneName ==
    /\ \A i \in 1..Len(modules_info.modules) :
          LET x == modules_info.modules[i]
          IN  /\ Cardinality(ValuesFor(modules_info.module2entry, x)) = 1
              /\ Cardinality(ValuesFor(modules_info.module2name, x)) = 1
    /\ last.op = "add" =>
          /\ modules_info.module2entry[last.module] = last.module_entry
          /\ modules_info.module2name[last.module] = last.name

\* C12 happens: one module was added three times, under both names and at
\* both addresses, and has the entry and the name of the last call
C12_Witness ==
    /\ Len(modules_info.modules) = 3
    /\ \A i \in 1..3 : modules_info.modules[i] = last.module
    /\ DOMAIN modules_info.name2module = AddNames
    /\ Cardinality(ValuesFor(modules_info.module2entry, last.module)) = 1
    /\ modules_info.module2entry[last.module] = last.module_entry
    /\ modules_info.module2name[last.module] = last.name


-----------------------------------------------------------------------------
(* Claims about nested faults                                              *)

\* C13: the address a dispatch returns as the place to jump to is the handler
\* of a frame the guest installed, also when the dispatch happens while a
\* handler is active; it is never the poison value 0xaaaaaaaa of a fake frame.
C13_TargetIsRealHandler ==
    Dispatched =>
        /\ eh_ret # POISON_EH
        /\ eh_ret \in GuestHandlers
        /\ pc = eh_ret

\* C14: every resume, at whatever depth of nesting, sets the TIB head to the
\* value it had just before the matching dispatch, so when the outermost
\* resume is done the head is the one from before the first fault.
C14_ResumeRestoresHead ==
    Resumed =>
        /\ last.entry_head = SyntheticFrame(last.fault)
        /\ TibHead = last.fault.head
        /\ faults = <<>> => TibHead \in RealFrames

\* where the fake frame of a dispatch taken inside the handler of f lies
InnerSyntheticFrame(f) == SyntheticFrame([base |-> Add32(f.base, -16 - 968)])

\* C14 happens: two dispatches, the second inside the handler of the first,
\* and two resumes; the inner fake frame, still in memory, points at the outer
\* one, and the head is back at the guest's frame
C14_Witness ==
    /\ Resumed
    /\ seh_count = 2
    /\ faults = <<>>
    /\ get_u32(vm, InnerSyntheticFrame(last.fault)) = SyntheticFrame(last.fault)
    /\ TibHead = last.fault.head
    /\ TibHead \in RealFrames

\* C15: after a dispatch taken with stack pointer S and head H the stack
\* pointer is (S - 0x3c8) - 16 and the dwords at SP, SP+4, SP+8, SP+12 are the
\* trampoline address 0x6eadbeef, the address of the exception record
\* (S - 0x3c8 + 0xe8), H, and the address of the context record
\* (S - 0x3c8 + 0xfc).
C15_HandlerStack ==
    Dispatched =>
        LET S == faults[1].cpu["ESP"]
            H == faults[1].head
            SP == cpu["ESP"]
        IN  /\ SP = Add32(Add32(S, -968), -16)
            /\ get_u32(vm, SP) = W(28333, 48879)
            /\ get_u32(vm, Add32(SP, 4)) = Add32(Add32(S, -968), 232)
            /\ get_u32(vm, Add32(SP, 8)) = H
            /\ get_u32(vm, Add32(SP, 12)) = Add32(Add32(S, -968), 252)

\* C15 happens: a dispatch taken on the guest's own frame left that frame's
\* address at SP+8 and the trampoline on top
C15_Witness ==
    /\ Dispatched
    /\ Len(faults) = 1
    /\ faults[1].head \in RealFrames
    /\ faults[1].head = faults[1].cpu["ESP"]
    /\ get_u32(vm, Add32(cpu["ESP"], 8)) = faults[1].head
    /\ get_u32(vm, cpu["ESP"]) = return_from_exception
    /\ cpu["ESP"] = Add32(faults[1].cpu["ESP"], -984)

\* C16: a resume entered with the stack pointer 4 above where the dispatch
\* left it (the handler popped only the return address) finds at SP + 8 the
\* address of the context record that dispatch pushed, and the stack pointer
\* it loads from offset 0xc4 of that record is the pre-fault one.
C16_ResumeFindsContext ==
    Resumed =>
        LET SP == last.entry_cpu["ESP"]
            ctx == Add32(last.fault.base, 252)
        IN  /\ SP = Add32(Add32(last.fault.base, -16), 4)
            /\ get_u32(vm, Add32(SP, 8)) = ctx
            /\ get_u32(vm, Add32(ctx, 196)) = last.fault.cpu["ESP"]
            /\ cpu["ESP"] = last.fault.cpu["ESP"]

\* C16 happens: a resume that does not restore the registers (EAX = 1) still
\* took the pre-fault stack pointer from the record
C16_Witness ==
    /\ Resumed
    /\ last.eax = W(0, 1)
    /\ get_u32(vm, Add32(last.entry_cpu["ESP"], 8)) = Add32(last.fault.base, 252)
    /\ cpu["ESP"] = last.fault.cpu["ESP"]
    /\ cpu["ESP"] # last.entry_cpu["ESP"]
    /\ cpu["ESP"] = Add32(last.entry_cpu["ESP"], 980)

-----------------------------------------------------------------------------
(* fake_seh_handler one statement at a time                                *)

\* the statements with the head written before the fake frame
dispatch_steps_head_first ==
    <<"addresses", "regs2ctxt", "seh_ptr", "seh_fields", "set_esp",
      "exception_record", "push_context", "push_seh", "push_record",
      "push_return", "set_head", "fake_frame", "clear_exceptions", "clear_ebx">>

\* the same statements with EBX cleared before the context is saved
dispatch_steps_ebx_first ==
    <<"addresses", "clear_ebx", "regs2ctxt", "seh_ptr", "seh_fields", "set_esp",
      "exception_record", "push_context", "push_seh", "push_record",
      "push_return", "fake_frame", "set_head", "clear_exceptions">>

\* the statements of fake_seh_handler that read or change state, in the order
\* of the source
dispatch_steps ==
    <<"addresses", "regs2ctxt", "seh_ptr", "seh_fields", "set_esp",
      "exception_record", "push_context", "push_seh", "push_record",
      "push_return", "fake_frame", "set_head", "clear_exceptions", "clear_ebx">>

\* the locals before the first statement
dispatch_locals(except_code) ==
    [except_code |-> except_code, new_ESP |-> NoValue,
     exception_record_address |-> NoValue, context_address |-> NoValue,
     fake_seh_address |-> NoValue, seh_ptr |-> NoValue, old_seh |-> NoValue,
     eh |-> NoValue]

\* a push as a statement: [vm, cpu, L, ok]
push_step(m, c, L, v) ==
    LET st == push_uint32_t([vm |-> m, cpu |-> c], v)
    IN  [vm |-> st.vm, cpu |-> st.cpu, L |-> L,
         ok |-> is_mapped(m, Add32(c["ESP"], -4), 4)]

\* one statement of fake_seh_handler on memory m, registers c and locals L:
\* [vm, cpu, L, ok], ok false when the statement reads or writes unmapped memory
fake_seh_step(name, m, c, L) ==
    LET keep == [vm |-> m, cpu |-> c, L |-> L, ok |-> TRUE]
    IN  CASE name = "addresses" ->                              \* lines 555-559
               LET new_ESP == Add32(c["ESP"], -frame_size)
               IN  [keep EXCEPT !.L =
                       [L EXCEPT !.new_ESP = new_ESP,
                                 !.exception_record_address =
                                     Add32(new_ESP, exception_record_offset),
                                 !.context_address = Add32(new_ESP, context_offset),
                                 !.fake_seh_address = Add32(new_ESP, fake_seh_offset)]]
          [] name = "regs2ctxt" ->                              \* line 562
               [keep EXCEPT !.vm = regs2ctxt(m, c, L.context_address),
                            !.ok = is_mapped(m, L.context_address,
                                             ContextException_sizeof)]
          [] name = "seh_ptr" ->                                \* line 565
               [keep EXCEPT !.L = [L EXCEPT !.seh_ptr = get_u32(m, tib_address)]]
          [] name = "seh_fields" ->                             \* lines 568-569
               [keep EXCEPT !.L = [L EXCEPT !.old_seh = get_u32(m, L.seh_ptr),
                                            !.eh = get_u32(m, Add32(L.seh_ptr, 4))],
                            !.ok = is_mapped(m, L.seh_ptr, 12)]
          [] name = "set_esp" ->                                \* line 574
               [keep EXCEPT !.cpu = [c EXCEPT !["ESP"] = L.new_ESP]]
          [] name = "exception_record" ->                       \* lines 590-592
               [keep EXCEPT !.vm = set_mem(m, L.exception_record_address,
                                           exception_record(L.except_code, c["EIP"])),
                            !.ok = is_mapped(m, L.exception_record_address, 20)]
          [] name = "push_context" ->                           \* line 595
               push_step(m, c, L, L.context_address)
          [] name = "push_seh" ->                               \* line 596
               push_step(m, c, L, L.seh_ptr)
          [] name = "push_record" ->                            \* line 597
               push_step(m, c, L, L.exception_record_address)
          [] name = "push_return" ->                            \* line 598
               push_step(m, c, L, return_from_exception)
          [] name = "fake_frame" ->                             \* lines 602-603
               [keep EXCEPT !.vm = set_mem(m, L.fake_seh_address,
                                           fake_seh_frame(L.seh_ptr)),
                            !.ok = is_mapped(m, L.fake_seh_address, 16)]
          [] name = "set_head" ->                               \* line 604
               [keep EXCEPT !.vm = set_mem(m, tib_address, pck32(L.fake_seh_address))]
          [] name = "clear_exceptions" ->                       \* lines 609-610
               [keep EXCEPT !.vm = [m EXCEPT !.exception_flags = 0],
                            !.cpu = [c EXCEPT !["exception_flags"] = 0]]
          [] name = "clear_ebx" ->                              \* line 613
               [keep EXCEPT !.cpu = [c EXCEPT !["EBX"] = Zero32]]

\* the exception codes of lines 35-37
StepCodes == ExceptCodes \cup {EXCEPTION_INT_DIVIDE_BY_ZERO}

\* fake_seh_handler has been entered and has not returned
Stepping == last.op = "fake_seh_handler"

\* the guest installs a frame while no dispatch is under way
StepGuestInstall(h) == ~Stepping /\ GuestInstall(h)

\* the guest removes its frame while no dispatch is under way
StepGuestRemove == ~Stepping /\ GuestRemove

\* fake_seh_handler is entered: lines 549-552
StepBegin(except_code) ==
    /\ status = "running"
    /\ ~Stepping
    /\ ~AtTrampoline
    /\ seh_count < MaxFaults
    /\ seh_count' = seh_count + 1
    /\ last' = [op |-> "fake_seh_handler", i |-> 1,
                L |-> dispatch_locals(except_code),
                vm0 |-> vm, cpu0 |-> cpu, pc0 |-> pc, head0 |-> TibHead]
    /\ UNCHANGED <<name2module, main_pe, modules_info, init_pc, vm, cpu, pc,
                   eh_ret, status, faults, frames, walk>>

\* its next statement runs
StepDo ==
    /\ Stepping
    /\ last.i <= Len(dispatch_steps)
    /\ LET r == fake_seh_step(dispatch_steps[last.i], vm, cpu, last.L)
       IN  IF r.ok
           THEN /\ vm' = r.vm
                /\ cpu' = r.cpu
                /\ last' = [last EXCEPT !.i = @ + 1, !.L = r.L]
                /\ status' = status
           ELSE /\ status' = "vm_error"
                /\ last' = [op |-> "dispatch", status |-> "vm_error"]
                /\ UNCHANGED <<vm, cpu>>
    /\ UNCHANGED <<name2module, main_pe, modules_info, init_pc, pc, seh_count,
                   eh_ret, faults, frames, walk>>

\* it returns eh (line 615) and the emulator jumps there
StepReturn ==
    /\ Stepping
    /\ last.i = Len(dispatch_steps) + 1
    /\ eh_ret' = last.L.eh
    /\ pc' = last.L.eh
    /\ cpu' = [cpu EXCEPT !["EIP"] = last.L.eh]
    /\ faults' = <<[cpu |-> last.cpu0, pc |-> last.pc0, head |-> last.head0,
                    code |-> last.L.except_code,
                    base |-> Add32(last.cpu0["ESP"], -frame_size),
                    modified |-> FALSE]>> \o faults
    /\ last' = [op |-> "dispatch", status |-> "running"]
    /\ UNCHANGED <<name2module, main_pe, modules_info, init_pc, vm, seh_count,
                   status, frames, walk>>

NextSteps ==
    \/ \E h \in GuestHandlers : StepGuestInstall(h)
    \/ StepGuestRemove
    \/ \E c \in StepCodes : StepBegin(c)
    \/ StepDo
    \/ StepReturn

SpecSteps == Init /\ [][NextSteps]_vars

\* where the dispatch under way puts its fake frame: S - 0x3c8 + 0x14
FakeFrameUnderWay == Add32(Add32(last.cpu0["ESP"], -968), 20)

\* C17: inside a dispatch the TIB head is the fake frame's address only once
\* the fake frame holds the old head as its previous link and its handler
\* fields; before that the head is still the old one.
C17_HeadAfterFrame ==
    Stepping =>
        IF TibHead = FakeFrameUnderWay
        THEN get_mem(vm, FakeFrameUnderWay, 16) = pck32(last.head0) \o
                 pck32(W(43690, 43690)) \o pck32(W(43690, 43707)) \o
                 pck32(W(43690, 43724))
        ELSE TibHead = last.head0

\* C17 happens: between two statements of a dispatch the fake frame is
\* complete and the head is still the guest's frame
C17_Witness ==
    /\ Stepping
    /\ last.i <= Len(dispatch_steps)
    /\ TibHead = last.head0
    /\ TibHead \in RealFrames
    /\ get_u32(vm, FakeFrameUnderWay) = last.head0
    /\ get_u32(vm, Add32(FakeFrameUnderWay, 4)) = POISON_EH

\* the bytes that differ from what memory held when the dispatch was entered
Written ==
    {a \in DOMAIN vm.data :
        a \notin DOMAIN last.vm0.data \/ vm.data[a] # last.vm0.data[a]}

\* the four bytes of the TIB head
HeadSlot == {Add32(FS_0_AD, i) : i \in 0..3}

\* C18: every byte a dispatch entered with stack pointer S changes, the TIB
\* head apart, lies in [S - 0x3c8 - 16, S); nothing at or above S changes; and
\* the context record, the exception record and the fake frame all hold what
\* was written to them once every statement has run: they do not overlap.
C18_WritesInsideReserved ==
    Stepping =>
        LET S == last.cpu0["ESP"]
            base == Add32(S, -968)
        IN  /\ \A a \in Written \ HeadSlot :
                  Le32(Add32(base, -16), a) /\ Lt32(a, S)
            /\ \A a \in DOMAIN last.vm0.data \ HeadSlot :
                  Le32(S, a) => vm.data[a] = last.vm0.data[a]
            /\ last.i > Len(dispatch_steps) =>
                  /\ \A r \in RegNames :
                        ctxt_get(vm, Add32(base, 252), ctxt2regs_field[r])
                            = last.cpu0[r]
                  /\ get_u32(vm, Add32(base, 232)) = last.L.except_code
                  /\ get_u32(vm, Add32(base, 232 + 12)) = last.cpu0["EIP"]
                  /\ get_u32(vm, Add32(base, 20)) = last.head0
                  /\ get_u32(vm, Add32(base, 20 + 12)) = W(43690, 43724)
                  /\ get_u32(vm, Add32(base, -16)) = W(28333, 48879)
                  /\ get_u32(vm, Add32(base, -4)) = Add32(base, 252)

\* C18 happens: every statement has run, the lowest and the highest byte of
\* the written part of the reserved area changed, and the guest's frame at S
\* is as it was
C18_Witness ==
    /\ Stepping
    /\ last.i > Len(dispatch_steps)
    /\ Add32(last.cpu0["ESP"], -968 - 16) \in Written
    /\ Add32(last.cpu0["ESP"], -968 + 252 + 203) \in DOMAIN vm.data
    /\ last.head0 = last.cpu0["ESP"]
    /\ get_mem(vm, last.head0, 8) = get_mem(last.vm0, last.head0, 8)
    /\ get_u32(vm, Add32(last.head0, 4)) \in GuestHandlers

\* every statement of fake_seh_handler has run and it is about to return eh
AboutToReturn == Stepping /\ last.i > Len(dispatch_steps)

\* C21: fake_seh_handler changes exactly two registers of the live register
\* file: on its return ESP is the frame base minus 16 and EBX is 0, every
\* other general-purpose register, segment selector and EIP holds its
\* pre-fault value (between any two of its statements too), and the ebx field
\* of the saved context record holds the pre-fault EBX, not the cleared one.
C21_OnlyEspAndEbxChange ==
    Stepping =>
        /\ \A r \in RegNames \ {"ESP", "EBX"} : cpu[r] = last.cpu0[r]
        /\ cpu["EBX"] \in {last.cpu0["EBX"], Zero32}
        /\ AboutToReturn =>
              LET base == Add32(last.cpu0["ESP"], -frame_size)
              IN  /\ cpu["ESP"] = Add32(base, -16)
                  /\ cpu["EBX"] = Zero32
                  /\ ctxt_get(vm, Add32(base, context_offset), "ebx")
                         = last.cpu0["EBX"]
                  /\ get_mem(vm, Add32(base, context_offset + 164), 4)
                         = pck32(last.cpu0["EBX"])

\* C21 happens: a dispatch entered with a non-zero EBX is about to return,
\* the live EBX and ESP differ from the pre-fault ones and the saved context
\* does not hold the cleared EBX
C21_Witness ==
    /\ AboutToReturn
    /\ last.cpu0["EBX"] # Zero32
    /\ cpu["EBX"] = Zero32
    /\ cpu["ESP"] # last.cpu0["ESP"]
    /\ cpu["EAX"] = last.cpu0["EAX"]
    /\ ctxt_get(vm, Add32(Add32(last.cpu0["ESP"], -frame_size), context_offset),
                "ebx") # Zero32

-----------------------------------------------------------------------------
(* Claims about the module table                                           *)

\* create_modules_chain has run on a table that has items()
ChainBuilt ==
    /\ name2module.kind = "dict"
    /\ init_pc \notin {"build_teb", "build_peb", "create_modules_chain"}

\* where the descriptor of item number i of the table would lie
Slot(i) == Add32(Add32(LDR_AD, 7936), i * 4096)

\* the items of the table without, and with, an image object
Absent == {i \in 1..Len(name2module.items) : name2module.items[i][2] = None}
Present == {i \in 1..Len(name2module.items) : name2module.items[i][2] # None}

\* some link field or list head holds an address inside the slot of item i
PointedAt(i) ==
    LET inside(w) == Le32(Slot(i), w) /\ Lt32(w, Add32(Slot(i), 4096))
    IN  \/ \E y \in DOMAIN modules_info.module2entry, off \in LinkOffsets :
              inside(LinkPair(y, off)[1]) \/ inside(LinkPair(y, off)[2])
        \/ \E off \in LinkOffsets :
              /\ is_mapped(vm, ListHead(off), 8)
              /\ \/ inside(get_u32(vm, ListHead(off)))
                 \/ inside(get_u32(vm, Add32(ListHead(off), 4)))

\* C19: a module without image object is skipped without error: it is not
\* registered, no descriptor is allocated for it and no loader list reaches
\* it; every module with an image object is registered, has its descriptor
\* and is linked.
C19_AbsentModuleSkipped ==
    ChainBuilt =>
        /\ init_pc = "fix_InLoadOrderModuleList" => status = "running"
        /\ \A i \in Absent :
              /\ None \notin {modules_info.modules[k] :
                                  k \in 1..Len(modules_info.modules)}
              /\ None \notin DOMAIN modules_info.module2entry
              /\ \A x \in DOMAIN modules_info.module2entry :
                    modules_info.module2entry[x] # Slot(i)
              /\ \A o \in {0, 1280, 1536} : ~is_mapped(vm, Add32(Slot(i), o), 1)
              /\ ~PointedAt(i)
        /\ Len(modules_info.modules) = Cardinality(Present)
        /\ \A i \in Present :
              LET x == name2module.items[i][2]
              IN  /\ \E k \in 1..Len(modules_info.modules) : modules_info.modules[k] = x
                  /\ modules_info.module2entry[x] = Slot(i)
                  /\ is_mapped(vm, Slot(i), 52)
                  /\ FixupsDone => LinkedThrough(x, 0) /\ LinkedThrough(x, 8)

\* C19 happens: init_seh ran to its end on a table whose second item has no
\* image object, and the modules before and after it are linked to each other
C19_Witness ==
    /\ InitSehDone
    /\ status = "running"
    /\ Len(name2module.items) = 3
    /\ Absent = {2}
    /\ ~is_mapped(vm, Slot(2), 1)
    /\ LinkPair(name2module.items[1][2], 0)[1] = Slot(3)
    /\ LinkPair(name2module.items[3][2], 0)[2] = Slot(1)

-----------------------------------------------------------------------------
(* Claims about the string references of a module descriptor               *)

\* a string in the wide encoding, without terminator: each character followed
\* by a zero byte
Wide(s) == JoinNul(s) \o <<0>>

\* the string reference at offset off of the descriptor of item i describes
\* the string s: its length field is the byte length of Wide(s) and its data
\* field points at those bytes, followed by a terminator
Describes(i, off, s) ==
    LET data == get_u32(vm, Add32(Slot(i), off + UnicodeString_data))
    IN  /\ upck16(get_mem(vm, Add32(Slot(i), off), 2)) = Len(Wide(s))
        /\ is_mapped(vm, data, Len(Wide(s)) + 2)
        /\ get_mem(vm, data, Len(Wide(s)) + 2) = Wide(s) \o <<0, 0>>

\* the base name and the full path of item i of the table
BaseNameOf(i) == Lower(Basename(name2module.items[i][1]))
FullPathOf(i) == ReplaceSlash(name2module.items[i][1])

\* every descriptor's BaseDllName describes the base name
BaseDllNameDescribed ==
    \A i \in Present : Describes(i, LdrDataEntry_BaseDllName, BaseNameOf(i))

\* every descriptor's FullDllName describes the full path
FullDllNameDescribed ==
    \A i \in Present : Describes(i, LdrDataEntry_FullDllName, FullPathOf(i))

\* C22: in every descriptor create_modules_chain builds, BaseDllName.length is
\* the byte length of the wide-encoded base name written at BaseDllName.data
\* and FullDllName.length is the byte length of the wide-encoded full path
\* written at FullDllName.data, terminators excluded, whether or not the file
\* name has a directory part.
C22_StringRefsDescribeStrings ==
    ChainBuilt => BaseDllNameDescribed /\ FullDllNameDescribed

-----------------------------------------------------------------------------
(* Claims about a resume that ends in NotImplementedError                  *)

\* C20: a resume that ends in NotImplementedError (EAX = 1) has already
\* replaced the stack pointer by the one saved in the context record and the
\* TIB head by the fake frame's previous link, and has restored no other
\* register: each keeps the value the handler left.
C20_FatalResumeHalfDone ==
    (Resumed /\ (status = "NotImplementedError" \/ last.eax = W(0, 1))) =>
        /\ status = "NotImplementedError"
        /\ last.status = "NotImplementedError"
        /\ cpu["ESP"] = last.fault.cpu["ESP"]
        /\ cpu["ESP"] # last.entry_cpu["ESP"]
        /\ TibHead = last.fault.head
        /\ TibHead # last.entry_head
        /\ \A r \in DOMAIN cpu \ {"ESP"} : cpu[r] = last.entry_cpu[r]
        /\ pc = return_from_exception

\* C20 happens: after such a resume every covered register but ESP differs
\* from its pre-fault value, and ESP and the head are the pre-fault ones
C20_Witness ==
    /\ Resumed
    /\ status = "NotImplementedError"
    /\ \A r \in RegNames \ {"ESP"} : cpu[r] # last.fault.cpu[r]
    /\ cpu["ESP"] = last.fault.cpu["ESP"]
    /\ TibHead = last.fault.head
    /\ last.entry_head = SyntheticFrame(last.fault)

====
